---- MODULE Spec2Model ----
(***************************************************************************)
(* A model of the Confluence REST client (lib/confluence.js as shipped     *)
(* with the README and the mocha suite: src/unnamed/part_000).             *)
(*                                                                         *)
(* The client is a constructor that validates and keeps a caller-owned     *)
(* config object, and fifteen methods that each build one superagent       *)
(* request (two or three for the home-page flows) and hand the transport's *)
(* answer to the caller's callback.  The transport (superagent, the remote *)
(* service) is the environment: it answers each pending request once, with *)
(* any outcome of Outcomes.                                                *)
(***************************************************************************)
EXTENDS Integers, Sequences, FiniteSets, TLC

VARIABLES
    heap,      \* the caller's config objects, by reference (1..Len(heap))
    clients,   \* the Confluence instances built so far: [config |-> reference]
    ctor,      \* the most recent constructor invocation and how it ended
    ops,       \* the method calls made so far, with their closure variables
    net        \* the requests handed to the transport, in the order issued

vars == <<heap, clients, ctor, ops, net>>

(***************************************************************************)
(* Bounds of the model.                                                    *)
(***************************************************************************)
MaxClients == 2
MaxOps == 1

(***************************************************************************)
(* JavaScript values.  Primitives and references share one record shape so *)
(* that any two of them can be compared; objects received from the         *)
(* transport (responses, parsed bodies) are records without a "t" field.   *)
(***************************************************************************)
Undef == [t |-> "undefined", n |-> 0, s |-> ""]
Null == [t |-> "null", n |-> 0, s |-> ""]
Num(k) == [t |-> "number", n |-> k, s |-> ""]
Str(x) == [t |-> "string", n |-> 0, s |-> x]
Bool(b) == [t |-> "boolean", n |-> IF b THEN 1 ELSE 0, s |-> ""]
Ref(i) == [t |-> "object", n |-> i, s |-> ""]
Err(k, msg) == [t |-> "error", n |-> k, s |-> msg]

IsPrim(v) == "t" \in DOMAIN v

\* ToBoolean: what `!v`, `v || d` and `if (v)` test.
Truthy(v) ==
    IF ~IsPrim(v) THEN TRUE
    ELSE CASE v.t = "undefined" -> FALSE
           [] v.t = "null" -> FALSE
           [] v.t = "number" -> v.n # 0
           [] v.t = "string" -> v.s # ""
           [] v.t = "boolean" -> v.n = 1
           [] OTHER -> TRUE

\* ToString, as applied by `+` with a string operand.
ToStr(v) ==
    CASE v.t = "undefined" -> "undefined"
      [] v.t = "null" -> "null"
      [] v.t = "number" -> ToString(v.n)
      [] v.t = "string" -> v.s
      [] v.t = "boolean" -> (IF v.n = 1 THEN "true" ELSE "false")
      [] OTHER -> "[object Object]"

\* a || b
OrElse(a, b) == IF Truthy(a) THEN a ELSE b

\* o.f for an object o: undefined when o has no own field f.
Has(o, f) == f \in DOMAIN o
Field(o, f) == IF Has(o, f) THEN o[f] ELSE Undef

\* o.f = v
SetField(o, f, v) == [g \in DOMAIN o \cup {f} |-> IF g = f THEN v ELSE o[g]]

(***************************************************************************)
(* The constructor.                                                        *)
(***************************************************************************)
MsgNoConfig == "Confluence module expects a config object."
MsgNoCredentials ==
    "Confluence module expects a config object with both a username and password."
MsgNoBaseUrl == "Confluence module expects a config object with a baseUrl."

ModernApiPath == "/rest/api"
LegacyApiPath == "/rest/prototype/latest"
LegacyExtension == ".json"
LegacyVersion == 4

\* config.f where config is the constructor's argument (past the !config test).
ConfigField(h, config, f) ==
    IF config.t = "object" THEN Field(h[config.n], f) ELSE Undef

\* The checks with the baseUrl test moved before the credentials test.
ValidateSwapped(h, config) ==
    IF ~Truthy(config) THEN MsgNoConfig
    ELSE IF ~Truthy(ConfigField(h, config, "baseUrl")) THEN MsgNoBaseUrl
    ELSE IF \/ ~Truthy(ConfigField(h, config, "username"))
            \/ ~Truthy(ConfigField(h, config, "password")) THEN MsgNoCredentials
    ELSE ""

\* The three checks of the constructor, in the order of the code; "" when none throws.
Validate(h, config) ==
    IF ~Truthy(config) THEN MsgNoConfig
    ELSE IF \/ ~Truthy(ConfigField(h, config, "username"))
            \/ ~Truthy(ConfigField(h, config, "password")) THEN MsgNoCredentials
    ELSE IF ~Truthy(ConfigField(h, config, "baseUrl")) THEN MsgNoBaseUrl
    ELSE ""

\* A derivation that compares the version marker loosely, as == does.
DeriveLoose(o) ==
    LET o1 == SetField(SetField(o, "apiPath", Str(ModernApiPath)), "extension", Str(""))
        version == Field(o1, "version")
    IN  IF Truthy(version) /\ ToStr(version) = ToStr(Num(LegacyVersion))
        THEN SetField(SetField(o1, "apiPath", Str(LegacyApiPath)),
                      "extension", Str(LegacyExtension))
        ELSE o1

\* this.config.apiPath = ...; this.config.extension = ...; the version branch.
Derive(o) ==
    LET o1 == SetField(SetField(o, "apiPath", Str(ModernApiPath)), "extension", Str(""))
        version == Field(o1, "version")
    IN  IF Truthy(version) /\ version = Num(LegacyVersion)
        THEN SetField(SetField(o1, "apiPath", Str(LegacyApiPath)),
                      "extension", Str(LegacyExtension))
        ELSE o1

\* A constructor that keeps a copy of the config and derives the descriptor on the copy.
ConstructCopy(form, config) ==
    LET thrown == Validate(heap, config)
    IN  IF thrown # ""
        THEN /\ ctor' = [form |-> form, config |-> config, thrown |-> thrown,
                         instance |-> 0, heapBefore |-> heap]
             /\ UNCHANGED <<heap, clients>>
        ELSE /\ heap' = Append(heap, Derive(heap[config.n]))
             /\ clients' = Append(clients, [config |-> Ref(Len(heap) + 1)])
             /\ ctor' = [form |-> form, config |-> config, thrown |-> "",
                         instance |-> Len(clients) + 1, heapBefore |-> heap]

\* The body of Confluence(config) once `this` is an instance.
Construct(form, config) ==
    LET thrown == Validate(heap, config)
    IN  IF thrown # ""
        THEN /\ ctor' = [form |-> form, config |-> config, thrown |-> thrown,
                         instance |-> 0, heapBefore |-> heap]
             /\ UNCHANGED <<heap, clients>>
        ELSE /\ heap' = [heap EXCEPT ![config.n] = Derive(heap[config.n])]
             /\ clients' = Append(clients, [config |-> config])
             /\ ctor' = [form |-> form, config |-> config, thrown |-> "",
                         instance |-> Len(clients) + 1, heapBefore |-> heap]

\* The values a caller passes as config: nothing, null, or one of its objects.
CtorArgs == {Undef, Null} \cup {Ref(i) : i \in 1..Len(heap)}

\* new Confluence(config)
New ==
    /\ Len(clients) < MaxClients
    /\ \E config \in CtorArgs : Construct("new", config)
    /\ UNCHANGED <<ops, net>>

\* A plain call that runs the body on whatever `this` is and returns nothing.
CallUnguarded ==
    /\ Len(clients) < MaxClients
    /\ \E config \in CtorArgs :
          LET thrown == Validate(heap, config)
          IN  /\ ctor' = [form |-> "call", config |-> config, thrown |-> thrown,
                          instance |-> 0, heapBefore |-> heap]
              /\ heap' = IF thrown = "" THEN [heap EXCEPT ![config.n] = Derive(@)]
                         ELSE heap
    /\ UNCHANGED <<clients, ops, net>>

\* Confluence(config): `this` is no instance, so the call returns new Confluence(config).
Call ==
    /\ Len(clients) < MaxClients
    /\ \E config \in CtorArgs : Construct("call", config)
    /\ UNCHANGED <<ops, net>>

(***************************************************************************)
(* Requests and the transport.                                             *)
(***************************************************************************)
\* this.config of client c (the object itself, read when the request is built).
Cfg(c) == heap[clients[c].config.n]

BaseUrl(cfg) == ToStr(Field(cfg, "baseUrl"))
ApiPath(cfg) == ToStr(Field(cfg, "apiPath"))
Extension(cfg) == ToStr(Field(cfg, "extension"))

\* request.<method>(url) with nothing chained on it yet.
Bare(o, method, url, handler) ==
    [op |-> o, method |-> method, url |-> url, handler |-> handler,
     auth |-> Undef, type |-> "", send |-> Undef, token |-> "", attach |-> Undef,
     answered |-> FALSE, err |-> Undef, res |-> Undef]

\* .auth(config.username, config.password)
Auth(r, cfg) ==
    [r EXCEPT !.auth = [user |-> Field(cfg, "username"), pass |-> Field(cfg, "password")]]

\* .type('json').send(doc)
SendJson(r, doc) == [r EXCEPT !.type = "json", !.send = doc]

\* .set("X-Atlassian-Token", "nocheck").attach("file", filepath)
AttachFile(r, filepath) == [r EXCEPT !.token = "nocheck", !.attach = filepath]

\* What the transport may hand to an .end(function(err, res)) handler.
ErrRefused == Err(1, "connect ECONNREFUSED")
ErrStatus == Err(2, "Not Found")
HomeLink == "/rest/api/content/491524"
HomePageIds == {Str("491524"), Str("98310")}

BodyNoResults == [size |-> Num(0)]
BodyEmptyResults == [results |-> <<>>, size |-> Num(0)]
BodyNoExpandable == [results |-> <<[key |-> Str("TEST")]>>, size |-> Num(1)]
BodyNoHomepage ==
    [results |-> <<[key |-> Str("TEST"), _expandable |-> [description |-> Str("")]]>>,
     size |-> Num(1)]
BodyLink ==
    [results |-> <<[key |-> Str("TEST"), _expandable |-> [homepage |-> Str(HomeLink)]]>>,
     size |-> Num(1)]
BodyPage(id) == [id |-> id, type |-> Str("page")]

Bodies ==
    {BodyNoResults, BodyEmptyResults, BodyNoExpandable, BodyNoHomepage, BodyLink}
    \cup {BodyPage(id) : id \in HomePageIds}

Outcomes ==
    {[err |-> ErrRefused, res |-> Undef],
     [err |-> ErrStatus, res |-> [status |-> 404, body |-> [message |-> Str("Not Found")]]],
     [err |-> Null, res |-> Undef],
     [err |-> Null, res |-> [status |-> 204]]}
    \cup {[err |-> Null, res |-> [status |-> 200, body |-> b]] : b \in Bodies}

\* One invocation of a callback; an argument not passed is undefined.
Invocation(err, res) == [err |-> err, res |-> res]

\* The state a handler works on and leaves behind.
St(o, n) == [ops |-> o, net |-> n]

\* callback(err, res) on the caller's callback of operation o.
CallUser(st, o, err, res) ==
    St([st.ops EXCEPT ![o].calls = Append(@, Invocation(err, res))], st.net)

MsgNoHomePage == "Can't find space home page."

\* A createPage sending a page variable that every call of postContent shares, which
\* holds the document of the most recent call.
CreatePageShared(st, o) ==
    LET cfg == Cfg(st.ops[o].client)
        latest == CHOOSE p \in 1..Len(st.ops) :
                      /\ st.ops[p].kind = "postContent"
                      /\ \A q \in 1..Len(st.ops) : st.ops[q].kind = "postContent" => q <= p
        r == Bare(o, "POST", BaseUrl(cfg) \o ApiPath(cfg) \o "/content" \o Extension(cfg),
                  "processCallback")
    IN  St(st.ops, Append(st.net, SendJson(Auth(r, cfg), st.ops[latest].page)))

\* createPage() of postContent: the POST of the page document.
CreatePage(st, o) ==
    LET cfg == Cfg(st.ops[o].client)
        r == Bare(o, "POST", BaseUrl(cfg) \o ApiPath(cfg) \o "/content" \o Extension(cfg),
                  "processCallback")
    IN  St(st.ops, Append(st.net, SendJson(Auth(r, cfg), st.ops[o].page)))

\* page.ancestors[0].id = id
WithAncestor(page, id) == [page EXCEPT !.ancestors[1] = SetField(@, "id", id)]

\* The closure reporting every failure as the fixed message.
HomePageResolvedMasked(st, o, err, res) ==
    IF Truthy(err) \/ ~Truthy(res) \/ ~Truthy(Field(res, "id"))
    THEN CallUser(st, o, Str(MsgNoHomePage), Undef)
    ELSE CreatePage(St([st.ops EXCEPT ![o].page = WithAncestor(@, Field(res, "id"))],
                       st.net), o)

\* function(err, res) handed to getSpaceHomePage by postContent.
HomePageResolved(st, o, err, res) ==
    IF Truthy(err) THEN CallUser(st, o, err, Undef)
    ELSE IF ~Truthy(res) \/ ~Truthy(Field(res, "id"))
         THEN CallUser(st, o, Str(MsgNoHomePage), Undef)
    ELSE CreatePage(St([st.ops EXCEPT ![o].page = WithAncestor(@, Field(res, "id"))],
                       st.net), o)

\* The callback parameter of getSpaceHomePage: the caller's, or postContent's closure.
Callback(st, o, err, res) ==
    IF st.ops[o].kind = "postContent"
    THEN HomePageResolved(st, o, err, res)
    ELSE CallUser(st, o, err, res)

\* processCallback without the body branch: what deleteContent's handler does.
processCallbackRaw(st, o, err, res) == CallUser(st, o, err, res)

\* processCallback(cb, err, res), cb being the caller's callback.
processCallback(st, o, err, res) ==
    IF Truthy(err) \/ ~Truthy(res) \/ ~Truthy(Field(res, "body"))
    THEN CallUser(st, o, err, res)
    ELSE CallUser(st, o, err, res.body)

\* processCallback(callback, err, res) in getSpaceHomePage's second handler.
processHomePage(st, o, err, res) ==
    IF Truthy(err) \/ ~Truthy(res) \/ ~Truthy(Field(res, "body"))
    THEN Callback(st, o, err, res)
    ELSE Callback(st, o, err, res.body)

(***************************************************************************)
(* The arguments callers pass.                                             *)
(***************************************************************************)
Space == Str("TEST")
ContentId == Str("491526")
Title == Str("TestPage")
Titles == {Title, Str("Test & Page")}
Content == Str("<p>x</p>")
ParentIds == {Null, Num(0), Num(491524)}
Representations == {Undef, Null, Str(""), Str("wiki")}
Versions == {Num(2), Num(3)}
MinorEdits == {Undef, Null, Bool(TRUE)}
ExpanderLists == {<<>>, <<"metadata">>, <<"version", "metadata">>}
FilePath == Str("/tmp/file.txt")
AttachmentId == Str("att1")
Labels == [items |-> <<[prefix |-> Str("global"), name |-> Str("awesome-sauce")]>>]
LabelName == Str("awesome-sauce")
Query == Str("label=global:test")

(***************************************************************************)
(* The methods.  Each appends the call to ops and its first request to net.*)
(***************************************************************************)
CanCall(c) == c \in 1..Len(clients)

\* The clients a caller may still call a method on, when it makes `limit` calls in all.
Callers(limit) == IF Len(ops) < limit THEN 1..Len(clients) ELSE {}

\* The index the call being made gets in ops.
This == Len(ops) + 1

Issue(call, r) ==
    /\ ops' = Append(ops, call)
    /\ net' = Append(net, r)
    /\ UNCHANGED <<heap, clients, ctor>>

NewCall(kind, c) == [kind |-> kind, client |-> c, calls |-> <<>>]

getSpace(c, space) ==
    /\ CanCall(c)
    /\ LET cfg == Cfg(c)
           url == BaseUrl(cfg) \o ApiPath(cfg) \o "/space" \o Extension(cfg)
                  \o "?spaceKey=" \o ToStr(space)
       IN  Issue(NewCall("getSpace", c), Auth(Bare(This, "GET", url, "processCallback"), cfg))

\* The first request of getSpaceHomePage, for the call `call` (its own or postContent's).
SpaceLookup(call, c, space) ==
    LET cfg == Cfg(c)
        url == BaseUrl(cfg) \o ApiPath(cfg) \o "/space" \o Extension(cfg)
               \o "?spaceKey=" \o ToStr(space)
    IN  Issue(call, Auth(Bare(This, "GET", url, "spaceLookup"), cfg))

getSpaceHomePage(c, space) ==
    /\ CanCall(c)
    /\ SpaceLookup(NewCall("getSpaceHomePage", c), c, space)

getContentById(c, id) ==
    /\ CanCall(c)
    /\ LET cfg == Cfg(c)
           url == BaseUrl(cfg) \o ApiPath(cfg) \o "/content/" \o ToStr(id) \o Extension(cfg)
                  \o "?expand=body.storage,version"
       IN  Issue(NewCall("getContentById", c),
                 Auth(Bare(This, "GET", url, "processCallback"), cfg))

\* Array.prototype.join(): the elements separated by commas.
RECURSIVE Join(_)
Join(list) ==
    IF Len(list) = 0 THEN ""
    ELSE IF Len(list) = 1 THEN list[1]
    ELSE list[1] \o "," \o Join(Tail(list))

DefaultExpanders == <<"body.storage", "version">>

\* A defaulting that takes an empty list for a missing one.
ExpandersEmptyDefault(options) ==
    IF Has(options, "expanders") /\ Len(options.expanders) > 0
    THEN options.expanders ELSE DefaultExpanders

\* options.expanders || ['body.storage', 'version']: an array, even empty, is truthy.
Expanders(options) ==
    IF Has(options, "expanders") THEN options.expanders ELSE DefaultExpanders

getCustomContentById(c, options) ==
    /\ CanCall(c)
    /\ LET cfg == Cfg(c)
           url == BaseUrl(cfg) \o ApiPath(cfg) \o "/content/" \o ToStr(Field(options, "id"))
                  \o Extension(cfg) \o "?expand=" \o Join(Expanders(options))
       IN  Issue([kind |-> "getCustomContentById", client |-> c, calls |-> <<>>,
                  options |-> options],
                 Auth(Bare(This, "GET", url, "processCallback"), cfg))

getContentByPageTitle(c, space, title) ==
    /\ CanCall(c)
    /\ LET cfg == Cfg(c)
           query == "?spaceKey=" \o ToStr(space) \o "&title=" \o ToStr(title)
                    \o "&expand=body.storage,version"
           url == BaseUrl(cfg) \o ApiPath(cfg) \o "/content" \o Extension(cfg) \o query
       IN  Issue(NewCall("getContentByPageTitle", c),
                 Auth(Bare(This, "GET", url, "processCallback"), cfg))

\* The page document postContent builds before it decides on a lookup.
NewPage(space, title, content, representation) ==
    [type |-> Str("page"), title |-> title, space |-> [key |-> space],
     ancestors |-> <<[type |-> Str("page")]>>,
     body |-> [storage |-> [value |-> content,
                            representation |-> OrElse(representation, Str("storage"))]]]

\* if (!parentId)
\* A test that takes only a parentId left out for a missing one.
NeedsLookupUndefinedOnly(parentId) == parentId = Undef

NeedsLookup(parentId) == ~Truthy(parentId)

postContent(c, space, title, content, parentId, representation) ==
    /\ CanCall(c)
    /\ LET page == NewPage(space, title, content, representation)
       IN  IF NeedsLookup(parentId)
           THEN SpaceLookup([kind |-> "postContent", client |-> c, calls |-> <<>>,
                             space |-> space, parentId |-> parentId, page |-> page],
                            c, space)
           ELSE LET made == [kind |-> "postContent", client |-> c, calls |-> <<>>,
                             space |-> space, parentId |-> parentId,
                             page |-> WithAncestor(page, parentId)]
                    st == CreatePage(St(Append(ops, made), net), This)
                IN  /\ ops' = st.ops
                    /\ net' = st.net
                    /\ UNCHANGED <<heap, clients, ctor>>

\* A page document numbered by the client: one more than the highest version any
\* earlier putContent sent, when there is one.
PutPageTracked(space, id, version, title, content, minorEdit, representation) ==
    LET sent == {ops[o].version.n : o \in {p \in 1..Len(ops) : ops[p].kind = "putContent"}}
        number == IF sent = {} THEN version
                  ELSE Num(1 + CHOOSE n \in sent : \A m \in sent : m <= n)
    IN  [id |-> id, type |-> Str("page"), title |-> title, space |-> [key |-> space],
         version |-> [number |-> number, minorEdit |-> OrElse(minorEdit, Bool(FALSE))],
         body |-> [storage |-> [value |-> content,
                                representation |-> OrElse(representation, Str("storage"))]]]

\* The page document of the earlier putContent, which took no minorEdit and no
\* representation.
PutPageFixedFormat(space, id, version, title, content, minorEdit, representation) ==
    [id |-> id, type |-> Str("page"), title |-> title, space |-> [key |-> space],
     version |-> [number |-> version, minorEdit |-> Bool(FALSE)],
     body |-> [storage |-> [value |-> content, representation |-> Str("storage")]]]

\* The page document putContent sends.
PutPage(space, id, version, title, content, minorEdit, representation) ==
    [id |-> id, type |-> Str("page"), title |-> title, space |-> [key |-> space],
     version |-> [number |-> version, minorEdit |-> OrElse(minorEdit, Bool(FALSE))],
     body |-> [storage |-> [value |-> content,
                            representation |-> OrElse(representation, Str("storage"))]]]

putContent(c, space, id, version, title, content, minorEdit, representation) ==
    /\ CanCall(c)
    /\ LET cfg == Cfg(c)
           page == PutPage(space, id, version, title, content, minorEdit, representation)
           url == BaseUrl(cfg) \o ApiPath(cfg) \o "/content/" \o ToStr(id) \o Extension(cfg)
                  \o "?expand=body.storage,version"
       IN  Issue([kind |-> "putContent", client |-> c, calls |-> <<>>,
                  version |-> version, title |-> title, minorEdit |-> minorEdit,
                  representation |-> representation],
                 SendJson(Auth(Bare(This, "PUT", url, "processCallback"), cfg), page))

deleteContent(c, id) ==
    /\ CanCall(c)
    /\ LET cfg == Cfg(c)
           url == BaseUrl(cfg) \o ApiPath(cfg) \o "/content/" \o ToStr(id) \o Extension(cfg)
       IN  Issue(NewCall("deleteContent", c), Auth(Bare(This, "DELETE", url, "callback"), cfg))

getAttachments(c, space, id) ==
    /\ CanCall(c)
    /\ LET cfg == Cfg(c)
           query == "?spaceKey=" \o ToStr(space) \o "&expand=version,container"
           url == BaseUrl(cfg) \o ApiPath(cfg) \o "/content/" \o ToStr(id)
                  \o "/child/attachment" \o query
       IN  Issue(NewCall("getAttachments", c),
                 Auth(Bare(This, "GET", url, "processCallback"), cfg))

createAttachment(c, space, id, filepath) ==
    /\ CanCall(c)
    /\ LET cfg == Cfg(c)
           url == BaseUrl(cfg) \o ApiPath(cfg) \o "/content/" \o ToStr(id)
                  \o "/child/attachment"
       IN  Issue(NewCall("createAttachment", c),
                 AttachFile(Auth(Bare(This, "POST", url, "processCallback"), cfg), filepath))

updateAttachmentData(c, space, id, attachmentId, filepath) ==
    /\ CanCall(c)
    /\ LET cfg == Cfg(c)
           url == BaseUrl(cfg) \o ApiPath(cfg) \o "/content/" \o ToStr(id)
                  \o "/child/attachment/" \o ToStr(attachmentId) \o "/data"
       IN  Issue(NewCall("updateAttachmentData", c),
                 AttachFile(Auth(Bare(This, "POST", url, "processCallback"), cfg), filepath))

getLabels(c, id) ==
    /\ CanCall(c)
    /\ LET cfg == Cfg(c)
           url == BaseUrl(cfg) \o ApiPath(cfg) \o "/content/" \o ToStr(id) \o "/label"
       IN  Issue(NewCall("getLabels", c), Auth(Bare(This, "GET", url, "processCallback"), cfg))

postLabels(c, id, labels) ==
    /\ CanCall(c)
    /\ LET cfg == Cfg(c)
           url == BaseUrl(cfg) \o ApiPath(cfg) \o "/content/" \o ToStr(id) \o "/label"
       IN  Issue(NewCall("postLabels", c),
                 SendJson(Auth(Bare(This, "POST", url, "processCallback"), cfg), labels))

deleteLabel(c, id, label) ==
    /\ CanCall(c)
    /\ LET cfg == Cfg(c)
           url == BaseUrl(cfg) \o ApiPath(cfg) \o "/content/" \o ToStr(id)
                  \o "/label?name=" \o ToStr(label)
       IN  Issue(NewCall("deleteLabel", c), Auth(Bare(This, "DELETE", url, "callback"), cfg))

search(c, query) ==
    /\ CanCall(c)
    /\ LET cfg == Cfg(c)
           url == BaseUrl(cfg) \o ApiPath(cfg) \o "/search" \o Extension(cfg)
                  \o "?" \o ToStr(query)
       IN  Issue(NewCall("search", c), Auth(Bare(This, "GET", url, "processCallback"), cfg))

(***************************************************************************)
(* The .end(function(err, res)) handlers, run when the transport answers.  *)
(***************************************************************************)
Pending(i) == i \in 1..Len(net) /\ ~net[i].answered

\* The state a handler starts from: request i has its answer.
Answered(i, out) ==
    St(ops, [net EXCEPT ![i].answered = TRUE, ![i].err = out.err, ![i].res = out.res])

Leave(st) ==
    /\ ops' = st.ops
    /\ net' = st.net
    /\ UNCHANGED <<heap, clients, ctor>>

\* function(err, res){ processCallback(callback, err, res); } of the one-request
\* methods and of createPage.
EndRequest(i, out) ==
    /\ Pending(i)
    /\ net[i].handler = "processCallback"
    /\ Leave(processCallback(Answered(i, out), net[i].op, out.err, out.res))

\* A delete handler that normalises its response like the other methods.
EndDeleteParsed(i, out) ==
    /\ Pending(i)
    /\ net[i].handler = "callback"
    /\ Leave(processCallback(Answered(i, out), net[i].op, out.err, out.res))

\* function(err, res){ callback(err, res); } of deleteContent and deleteLabel.
EndDelete(i, out) ==
    /\ Pending(i)
    /\ net[i].handler = "callback"
    /\ Leave(CallUser(Answered(i, out), net[i].op, out.err, out.res))

\* res.body.results[0]._expandable.homepage, or the TypeError it throws.
Threw(property) ==
    [threw |-> TRUE, value |-> Undef,
     message |-> "Cannot read property '" \o property \o "' of undefined"]
Got(v) == [threw |-> FALSE, value |-> v, message |-> ""]

HomepageOf(res) ==
    IF ~Truthy(res) THEN Threw("body")
    ELSE IF ~Has(res, "body") THEN Threw("results")
    ELSE IF ~Has(res.body, "results") THEN Threw("0")
    ELSE IF Len(res.body.results) = 0 THEN Threw("_expandable")
    ELSE IF ~Has(res.body.results[1], "_expandable") THEN Threw("homepage")
    ELSE Got(Field(res.body.results[1]._expandable, "homepage"))

\* The second request with its .auth() call left out.
HomePageGetNoAuth(st, o, link) ==
    LET cfg == Cfg(st.ops[o].client)
    IN  St(st.ops, Append(st.net, Bare(o, "GET", BaseUrl(cfg) \o ToStr(link), "homePage")))

\* The second request of getSpaceHomePage.
HomePageGet(st, o, link) ==
    LET cfg == Cfg(st.ops[o].client)
    IN  St(st.ops,
           Append(st.net, Auth(Bare(o, "GET", BaseUrl(cfg) \o ToStr(link), "homePage"), cfg)))

\* The first handler with `if (err) callback(err);` not followed by else.
SpaceLookupDoneNoElse(st, o, err, res) ==
    LET st1 == IF Truthy(err) THEN Callback(st, o, err, Undef) ELSE st
        link == HomepageOf(res)
    IN  IF link.threw
        THEN Callback(st1, o, Str(MsgNoHomePage \o " " \o link.message), res)
        ELSE HomePageGet(st1, o, link.value)

\* The first handler of getSpaceHomePage.
SpaceLookupDone(st, o, err, res) ==
    IF Truthy(err) THEN Callback(st, o, err, Undef)
    ELSE LET link == HomepageOf(res)
         IN  IF link.threw
             THEN Callback(st, o, Str(MsgNoHomePage \o " " \o link.message), res)
             ELSE HomePageGet(st, o, link.value)

EndSpaceLookup(i, out) ==
    /\ Pending(i)
    /\ net[i].handler = "spaceLookup"
    /\ Leave(SpaceLookupDone(Answered(i, out), net[i].op, out.err, out.res))

\* The second handler of getSpaceHomePage.
EndHomePage(i, out) ==
    /\ Pending(i)
    /\ net[i].handler = "homePage"
    /\ Leave(processHomePage(Answered(i, out), net[i].op, out.err, out.res))

(***************************************************************************)
(* The caller's config objects.                                            *)
(***************************************************************************)
\* An object literal with the fields that are given (undefined: field left out), next
\* to whatever else the caller keeps on its object.
Config(username, password, baseUrl, version) ==
    LET all == [username |-> username, password |-> password, baseUrl |-> baseUrl,
                version |-> version, owner |-> Str("caller")]
    IN  [f \in {g \in DOMAIN all : all[g] # Undef} |-> all[f]]

Usernames == {Undef, Str(""), Str("testuser")}
Passwords == {Undef, Str(""), Str("test-user-pw")}
BaseUrls == {Undef, Str(""), Str("https://confluence-api-test.atlassian.net/wiki")}
VersionMarkers == {Undef, Num(LegacyVersion), Num(5), Str("4")}

Configs ==
    {Config(u, p, b, v) : u \in Usernames, p \in Passwords, b \in BaseUrls,
                          v \in {Undef, Num(LegacyVersion)}}

ValidConfigs == {o \in Configs : Validate(<<o>>, Ref(1)) = ""}

\* config.version = v, done by the caller on its own object.
SetVersion(i, v) ==
    /\ i \in 1..Len(heap)
    /\ Field(heap[i], "version") # v
    /\ heap' = [heap EXCEPT ![i] = SetField(@, "version", v)]
    /\ UNCHANGED <<clients, ctor, ops, net>>

(***************************************************************************)
(* Specifications.                                                         *)
(***************************************************************************)
NoCtor == [form |-> "", config |-> Undef, thrown |-> "", instance |-> 0, heapBefore |-> <<>>]

\* Construction: a caller holding one config object, building clients from it.
InitCtor ==
    /\ heap \in {<<o>> : o \in Configs}
    /\ clients = <<>>
    /\ ctor = NoCtor
    /\ ops = <<>>
    /\ net = <<>>

NextCtor ==
    \/ New
    \/ Call
    \/ \E i \in 1..Len(heap), v \in VersionMarkers : SetVersion(i, v)
    \/ \E c \in Callers(MaxOps) : search(c, Query)
    \/ \E i \in 1..Len(net), out \in Outcomes : EndRequest(i, out)

SpecCtor == InitCtor /\ [][NextCtor]_vars

\* Operation: one client, built from a valid config object.
Init ==
    /\ \E o \in ValidConfigs :
          /\ heap = <<Derive(o)>>
          /\ ctor = [form |-> "new", config |-> Ref(1), thrown |-> "", instance |-> 1,
                     heapBefore |-> <<o>>]
    /\ clients = <<[config |-> Ref(1)]>>
    /\ ops = <<>>
    /\ net = <<>>

Next ==
    \/ \E c \in Callers(MaxOps) : getSpace(c, Space)
    \/ \E c \in Callers(MaxOps) : getSpaceHomePage(c, Space)
    \/ \E c \in Callers(MaxOps) : getContentById(c, ContentId)
    \/ \E c \in Callers(MaxOps) : getCustomContentById(c, [id |-> ContentId])
    \/ \E c \in Callers(MaxOps), e \in ExpanderLists :
          getCustomContentById(c, [id |-> ContentId, expanders |-> e])
    \/ \E c \in Callers(MaxOps) : getContentByPageTitle(c, Space, Title)
    \/ \E c \in Callers(MaxOps), parentId \in ParentIds :
          postContent(c, Space, Title, Content, parentId, Undef)
    \/ \E c \in Callers(MaxOps) :
          putContent(c, Space, ContentId, Num(2), Title, Content, Undef, Undef)
    \/ \E c \in Callers(MaxOps) : deleteContent(c, ContentId)
    \/ \E c \in Callers(MaxOps) : getAttachments(c, Space, ContentId)
    \/ \E c \in Callers(MaxOps) : createAttachment(c, Space, ContentId, FilePath)
    \/ \E c \in Callers(MaxOps) :
          updateAttachmentData(c, Space, ContentId, AttachmentId, FilePath)
    \/ \E c \in Callers(MaxOps) : getLabels(c, ContentId)
    \/ \E c \in Callers(MaxOps) : postLabels(c, ContentId, Labels)
    \/ \E c \in Callers(MaxOps) : deleteLabel(c, ContentId, LabelName)
    \/ \E c \in Callers(MaxOps) : search(c, Query)
    \/ \E i \in 1..Len(net), out \in Outcomes : EndRequest(i, out)
    \/ \E i \in 1..Len(net), out \in Outcomes : EndDelete(i, out)
    \/ \E i \in 1..Len(net), out \in Outcomes : EndSpaceLookup(i, out)
    \/ \E i \in 1..Len(net), out \in Outcomes : EndHomePage(i, out)

Spec == Init /\ [][Next]_vars

\* Page documents: the same client, its callers creating and updating pages with
\* every combination of the optional arguments.
NextPage ==
    \/ \E c \in Callers(MaxOps), representation \in Representations :
          postContent(c, Space, Title, Content, Num(491524), representation)
    \/ \E c \in Callers(MaxOps), version \in Versions, title \in Titles,
          minorEdit \in MinorEdits, representation \in Representations :
          putContent(c, Space, ContentId, version, title, Content, minorEdit,
                     representation)
    \/ \E i \in 1..Len(net), out \in Outcomes : EndRequest(i, out)

SpecPage == Init /\ [][NextPage]_vars

\* Operations in flight together: callers in two spaces start flows while earlier
\* ones wait for their answers, and the transport answers them in any order.
MaxFlows == 2
Spaces == {Space, Str("DEV")}
\* The answers the transport gives in these runs: to a lookup, to a home-page GET and to
\* a create POST.
Ok(body) == [err |-> Null, res |-> [status |-> 200, body |-> body]]
Refused == [err |-> ErrRefused, res |-> Undef]
LookupAnswers == {Refused, Ok(BodyLink)}
HomeAnswers == {Ok(BodyPage(id)) : id \in HomePageIds}
CreateAnswers == {Refused, Ok(BodyPage(ContentId))}

NextFlows ==
    \/ \E c \in Callers(MaxFlows), space \in Spaces :
          postContent(c, space, Title, Content, Null, Undef)
    \/ \E i \in 1..Len(net), out \in LookupAnswers : EndSpaceLookup(i, out)
    \/ \E i \in 1..Len(net), out \in HomeAnswers : EndHomePage(i, out)
    \/ \E i \in 1..Len(net), out \in CreateAnswers : EndRequest(i, out)

\* One client of the current API, as the tests construct it.
InitFlows == Init /\ ~Has(heap[1], "version")

SpecFlows == InitFlows /\ [][NextFlows]_vars

\* Sequences of operations on one page: updates that follow reads, creations and
\* earlier updates, answered or not.
NextVersions ==
    \/ \E c \in Callers(MaxFlows), version \in Versions :
          putContent(c, Space, ContentId, version, Title, Content, Undef, Undef)
    \/ \E c \in Callers(MaxFlows) : getContentById(c, ContentId)
    \/ \E c \in Callers(MaxFlows) :
          postContent(c, Space, Title, Content, Num(491524), Undef)
    \/ \E i \in 1..Len(net), out \in CreateAnswers : EndRequest(i, out)

SpecVersions == Init /\ [][NextVersions]_vars

(***************************************************************************)
(* Properties.                                                             *)
(***************************************************************************)
Ops == 1..Len(ops)
ReqsOf(o) == {i \in 1..Len(net) : net[i].op = o}
LastReq(o) == CHOOSE i \in ReqsOf(o) : \A j \in ReqsOf(o) : j <= i
AllAnswered(o) == \A i \in ReqsOf(o) : net[i].answered
Absent(v) == v \in {Undef, Null}

\* What the constructor is documented to do on the most recent invocation.
AbsentOrEmpty(o, f) == ~Has(o, f) \/ Absent(o[f]) \/ o[f] = Str("")
Documented ==
    IF Absent(ctor.config) THEN MsgNoConfig
    ELSE LET o == ctor.heapBefore[ctor.config.n]
         IN  IF AbsentOrEmpty(o, "username") \/ AbsentOrEmpty(o, "password")
             THEN MsgNoCredentials
             ELSE IF AbsentOrEmpty(o, "baseUrl") THEN MsgNoBaseUrl
             ELSE ""

\* C1: every constructor invocation ends with the error of the first failing check, in
\* the order config, credentials, baseUrl, and yields an instance exactly when no check
\* fails.
C1_FirstFailingCheck ==
    ctor.form # "" =>
        /\ ctor.thrown = Documented
        /\ (ctor.instance # 0) <=> (Documented = "")
        /\ ctor.instance # 0 => ctor.instance = Len(clients)

\* An invocation where the credentials and the baseUrl are both missing.
C1_Witness ==
    /\ ctor.form # ""
    /\ ~Absent(ctor.config)
    /\ AbsentOrEmpty(ctor.heapBefore[ctor.config.n], "password")
    /\ AbsentOrEmpty(ctor.heapBefore[ctor.config.n], "baseUrl")
    /\ ctor.thrown = MsgNoCredentials

\* C2: the caller's callback is invoked at most once per operation, and it has been
\* invoked once every request the operation issued has its answer.
C2_ExactlyOnce ==
    \A o \in Ops :
        /\ Len(ops[o].calls) <= 1
        /\ ReqsOf(o) # {}
        /\ AllAnswered(o) => Len(ops[o].calls) = 1

\* A postContent that went through the lookup, the home-page GET and the POST.
C2_Witness ==
    \E o \in Ops :
        /\ ops[o].kind = "postContent"
        /\ Cardinality(ReqsOf(o)) = 3
        /\ AllAnswered(o)
        /\ Len(ops[o].calls) = 1

\* The reduction of a transport outcome that the response normaliser is described by.
Reduced(err, res) ==
    IF ~Absent(err) \/ Absent(res) \/ ~Has(res, "body")
    THEN Invocation(err, res)
    ELSE Invocation(Null, res.body)

\* C3 as stated: every operation's callback receives the reduction of its final
\* request's outcome, and always a non-null error or a result.
C3_Original ==
    \A o \in Ops :
        Len(ops[o].calls) >= 1 =>
            LET r == net[LastReq(o)]
                call == ops[o].calls[1]
            IN  /\ call = Reduced(r.err, r.res)
                /\ ~Absent(call.err) \/ ~Absent(call.res)

\* The final request is handed to processCallback with the caller's own callback.
ViaProcessCallback(o) ==
    LET r == net[LastReq(o)]
    IN  \/ r.handler = "processCallback"
        \/ r.handler = "homePage" /\ ops[o].kind = "getSpaceHomePage"

\* C3, amended: the reduction holds where the final request goes through
\* processCallback to the caller's callback; deleteContent and deleteLabel always
\* receive (error, raw response); an invocation lacks both an error and a result only
\* when the transport reported neither an error nor a response.
C3_Reduction ==
    \A o \in Ops :
        Len(ops[o].calls) >= 1 =>
            LET r == net[LastReq(o)]
                call == ops[o].calls[1]
            IN  /\ r.answered
                /\ ViaProcessCallback(o) => call = Reduced(r.err, r.res)
                /\ r.handler = "callback" => call = Invocation(r.err, r.res)
                /\ \/ ~Absent(call.err)
                   \/ ~Absent(call.res)
                   \/ Absent(r.err) /\ Absent(r.res)

\* A one-request operation whose response had a body: the callback got the body.
C3_Witness ==
    \E o \in Ops :
        /\ ops[o].kind = "getSpace"
        /\ Len(ops[o].calls) = 1
        /\ Has(net[LastReq(o)].res, "body")
        /\ Absent(net[LastReq(o)].err)
        /\ ops[o].calls[1] = Invocation(Null, net[LastReq(o)].res.body)

\* The requests of operation o in the order issued.
Lookups(o) == {i \in ReqsOf(o) : net[i].handler = "spaceLookup"}
HomeGets(o) == {i \in ReqsOf(o) : net[i].handler = "homePage"}
Creates(o) == {i \in ReqsOf(o) : net[i].method = "POST"}

\* C4 as stated: postContent with parentId = null issues the space lookup, then the
\* home-page GET, then the create POST; with any other parentId (0 included) it issues
\* the create POST alone.
C4_Original ==
    \A o \in Ops :
        ops[o].kind = "postContent" =>
            IF ops[o].parentId = Null
            THEN /\ Lookups(o) # {}
                 /\ \A i \in Creates(o) :
                       \E j \in Lookups(o), k \in HomeGets(o) : j < k /\ k < i
            ELSE ReqsOf(o) = Creates(o)

\* A response to the space lookup that names no home page.
LacksHomeLink(res) ==
    \/ Absent(res)
    \/ ~Has(res, "body")
    \/ ~Has(res.body, "results")
    \/ Len(res.body.results) = 0
    \/ ~Has(res.body.results[1], "_expandable")
    \/ ~Has(res.body.results[1]._expandable, "homepage")

\* A response to the home-page GET that carries no page id.
LacksId(res) == Absent(res) \/ ~Has(res, "body") \/ ~Has(res.body, "id")

ResolutionFailed(o) ==
    \E i \in ReqsOf(o) :
        /\ net[i].answered
        /\ \/ net[i].handler = "spaceLookup"
              /\ (~Absent(net[i].err) \/ LacksHomeLink(net[i].res))
           \/ net[i].handler = "homePage"
              /\ (~Absent(net[i].err) \/ LacksId(net[i].res))

\* C5 as stated: when home-page resolution fails in postContent without a parent, no
\* create POST is issued and the callback receives a non-null error.
C5_Original ==
    \A o \in Ops :
        (ops[o].kind = "postContent" /\ ops[o].parentId = Null /\ ResolutionFailed(o)) =>
            /\ Creates(o) = {}
            /\ AllAnswered(o) =>
                  Len(ops[o].calls) = 1 /\ ~Absent(ops[o].calls[1].err)

\* The errors that read "Can't find space home page.", with or without a cause.
DomainErrors ==
    {Str(MsgNoHomePage)}
    \cup {Str(MsgNoHomePage \o " " \o Threw(property).message) :
            property \in {"body", "results", "0", "_expandable", "homepage"}}

\* C6 as stated: a successful lookup response without a home-page link makes
\* getSpaceHomePage call back with the domain error and the lookup response, and issue
\* no second GET.
C6_Original ==
    \A o \in Ops :
        ops[o].kind = "getSpaceHomePage" =>
            \A i \in Lookups(o) :
                (/\ net[i].answered
                 /\ Absent(net[i].err)
                 /\ Has(net[i].res, "body")
                 /\ LacksHomeLink(net[i].res)) =>
                    /\ ReqsOf(o) = {i}
                    /\ Len(ops[o].calls) = 1
                    /\ ops[o].calls[1].err \in DomainErrors
                    /\ ops[o].calls[1].res = net[i].res

\* C7: in getSpaceHomePage and postContent, a request answered with a transport error
\* is the operation's last request, the callback has received that very error, and no
\* step of the flow is issued twice.
C7_FirstErrorUnchanged ==
    \A o \in Ops :
        ops[o].kind \in {"getSpaceHomePage", "postContent"} =>
            /\ \A i \in ReqsOf(o) :
                  (net[i].answered /\ ~Absent(net[i].err)) =>
                      /\ i = LastReq(o)
                      /\ Len(ops[o].calls) = 1
                      /\ ops[o].calls[1].err = net[i].err
            /\ \A i, j \in ReqsOf(o) : net[i].handler = net[j].handler => i = j

\* A postContent whose home-page GET failed: two requests, the error handed on.
C7_Witness ==
    \E o \in Ops :
        /\ ops[o].kind = "postContent"
        /\ ops[o].parentId = Null
        /\ Cardinality(ReqsOf(o)) = 2
        /\ net[LastReq(o)].handler = "homePage"
        /\ net[LastReq(o)].err = ErrStatus
        /\ ops[o].calls = <<Invocation(ErrStatus, Undef)>>

\* C8: every request carries basic authentication made of the username and the
\* password of the config of the client that issued it.
C8_BasicAuth ==
    \A i \in 1..Len(net) :
        LET cfg == Cfg(ops[net[i].op].client)
        IN  /\ net[i].auth = [user |-> cfg.username, pass |-> cfg.password]
            /\ Truthy(cfg.username) /\ Truthy(cfg.password)

\* The three requests of a postContent without parent, all issued.
C8_Witness ==
    \E i, j, k \in 1..Len(net) :
        /\ net[i].op = net[j].op /\ net[j].op = net[k].op
        /\ net[i].handler = "spaceLookup"
        /\ net[j].handler = "homePage"
        /\ net[k].method = "POST"
        /\ net[k].auth = [user |-> Str("testuser"), pass |-> Str("test-user-pw")]

\* The URL search builds from a config object.
SearchUrl(cfg, query) ==
    BaseUrl(cfg) \o ApiPath(cfg) \o "/search" \o Extension(cfg) \o "?" \o ToStr(query)

\* C9 as stated: the requests of the first client use the API path prefix and the
\* extension derived at its own construction, also after the caller has changed the
\* version of the config object and built a second client from it.  (When the second
\* construction starts, the object still holds what the first one derived.)
C9_Original ==
    (ctor.instance = 2 /\ clients[1].config = clients[2].config) =>
        \A i \in 1..Len(net) :
            ops[net[i].op].client = 1 =>
                net[i].url = SearchUrl(ctor.heapBefore[clients[1].config.n], Query)

\* The PUT request of operation o.
PutOf(o) == net[CHOOSE i \in ReqsOf(o) : TRUE]

\* C10: the body of a putContent request carries the version and the title of the
\* call; minorEdit is false and the representation "storage" when they are left out;
\* a representation that is given is sent as given.
C10_PutBody ==
    \A o \in Ops :
        ops[o].kind = "putContent" =>
            LET doc == PutOf(o).send
            IN  /\ PutOf(o).method = "PUT"
                /\ doc.version.number = ops[o].version
                /\ doc.title = ops[o].title
                /\ ops[o].minorEdit = Undef => doc.version.minorEdit = Bool(FALSE)
                /\ ops[o].representation = Undef =>
                      doc.body.storage.representation = Str("storage")
                /\ (ops[o].representation.t = "string" /\ ops[o].representation.s # "") =>
                      doc.body.storage.representation = ops[o].representation

\* An update of version 3 in wiki markup, minorEdit left out.
C10_Witness ==
    \E o \in Ops :
        /\ ops[o].kind = "putContent"
        /\ ops[o].version = Num(3)
        /\ ops[o].minorEdit = Undef
        /\ ops[o].representation = Str("wiki")
        /\ PutOf(o).send.body.storage.representation = Str("wiki")
        /\ PutOf(o).send.version = [number |-> Num(3), minorEdit |-> Bool(FALSE)]

\* The request of a single-request operation o.
OnlyReq(o) == net[CHOOSE i \in ReqsOf(o) : TRUE]

\* The expand parameter the description gives for each way of passing expanders.
DocumentedExpand(options) ==
    IF ~Has(options, "expanders") THEN "body.storage,version"
    ELSE IF options.expanders = <<>> THEN ""
    ELSE IF options.expanders = <<"metadata">> THEN "metadata"
    ELSE "version,metadata"

\* C11: getCustomContentById asks for expand=body.storage,version when no expanders are
\* passed, for exactly the comma-joined list when a non-empty list is passed, and for
\* an empty expand value when an empty list is passed.
C11_Expand ==
    \A o \in Ops :
        ops[o].kind = "getCustomContentById" =>
            LET cfg == Cfg(ops[o].client)
            IN  /\ Cardinality(ReqsOf(o)) = 1
                /\ OnlyReq(o).method = "GET"
                /\ OnlyReq(o).url =
                      BaseUrl(cfg) \o ApiPath(cfg) \o "/content/" \o ContentId.s
                      \o Extension(cfg) \o "?expand=" \o DocumentedExpand(ops[o].options)

\* A call that passed an empty list of expanders under the legacy API.
C11_Witness ==
    \E o \in Ops :
        /\ ops[o].kind = "getCustomContentById"
        /\ Has(ops[o].options, "expanders")
        /\ ops[o].options.expanders = <<>>
        /\ OnlyReq(o).url = "https://confluence-api-test.atlassian.net/wiki"
                            \o "/rest/prototype/latest/content/491526.json?expand="

Deletes == {"deleteContent", "deleteLabel"}

\* C12: deleteContent and deleteLabel hand their callback the transport's error and the
\* raw response object, never the parsed body, whatever the outcome of the request.
C12_RawResponse ==
    \A o \in Ops :
        ops[o].kind \in Deletes =>
            /\ OnlyReq(o).method = "DELETE"
            /\ OnlyReq(o).answered <=> Len(ops[o].calls) = 1
            /\ OnlyReq(o).answered =>
                  /\ ops[o].calls[1].err = OnlyReq(o).err
                  /\ ops[o].calls[1].res = OnlyReq(o).res

\* A deleteLabel whose response carried a parsed body, received whole.
C12_Witness ==
    \E o \in Ops :
        /\ ops[o].kind = "deleteLabel"
        /\ OnlyReq(o).answered
        /\ OnlyReq(o).err = Null
        /\ Has(OnlyReq(o).res, "body")
        /\ ops[o].calls[1].res = [status |-> 200, body |-> OnlyReq(o).res.body]

\* C13: Confluence(config) without `new` ends as new Confluence(config) ends on the same
\* argument: with the same error when the config is invalid, and otherwise with an
\* instance that holds that config and the apiPath and extension `new` derives from it.
C13_CallAsNew ==
    ctor.form = "call" =>
        LET thrown == Validate(ctor.heapBefore, ctor.config)
        IN  /\ ctor.thrown = thrown
            /\ thrown # "" => ctor.instance = 0
            /\ thrown = "" =>
                  LET derived == Derive(ctor.heapBefore[ctor.config.n])
                  IN  /\ ctor.instance = Len(clients)
                      /\ ctor.instance > 0
                      /\ clients[ctor.instance].config = ctor.config
                      /\ Field(Cfg(ctor.instance), "apiPath") = derived.apiPath
                      /\ Field(Cfg(ctor.instance), "extension") = derived.extension
                      /\ \A f \in {"username", "password", "baseUrl"} :
                            Field(Cfg(ctor.instance), f) = Field(derived, f)

\* A plain call on a legacy config that produced an instance of the legacy API.
C13_Witness ==
    /\ ctor.form = "call"
    /\ ctor.instance > 0
    /\ Field(ctor.heapBefore[ctor.config.n], "version") = Num(LegacyVersion)
    /\ Cfg(ctor.instance).apiPath = Str(LegacyApiPath)
    /\ Cfg(ctor.instance).extension = Str(LegacyExtension)

\* The first request of operation o.
FirstReq(o) == net[CHOOSE i \in ReqsOf(o) : \A j \in ReqsOf(o) : i <= j]

\* The resource path and the query string of the first request of operation o, for the
\* arguments the callers pass.
ResourcePath(o) ==
    LET kind == ops[o].kind
        content == "/content/" \o ContentId.s
    IN  IF FirstReq(o).handler = "spaceLookup" \/ kind = "getSpace" THEN "/space"
        ELSE IF kind \in {"getContentByPageTitle", "postContent"} THEN "/content"
        ELSE IF kind \in {"getAttachments", "createAttachment"}
             THEN content \o "/child/attachment"
        ELSE IF kind = "updateAttachmentData"
             THEN content \o "/child/attachment/" \o AttachmentId.s \o "/data"
        ELSE IF kind \in {"getLabels", "postLabels", "deleteLabel"} THEN content \o "/label"
        ELSE IF kind = "search" THEN "/search"
        ELSE content

QueryString(o) ==
    LET kind == ops[o].kind
    IN  IF FirstReq(o).handler = "spaceLookup" \/ kind = "getSpace"
        THEN "?spaceKey=" \o Space.s
        ELSE IF kind \in {"getContentById", "putContent"} THEN "?expand=body.storage,version"
        ELSE IF kind = "getCustomContentById"
             THEN "?expand=" \o DocumentedExpand(ops[o].options)
        ELSE IF kind = "getContentByPageTitle"
             THEN "?spaceKey=" \o Space.s \o "&title=" \o Title.s
                  \o "&expand=body.storage,version"
        ELSE IF kind = "getAttachments"
             THEN "?spaceKey=" \o Space.s \o "&expand=version,container"
        ELSE IF kind = "deleteLabel" THEN "?name=" \o LabelName.s
        ELSE IF kind = "search" THEN "?" \o Query.s
        ELSE ""

\* C14 as stated: under either version selector the first request of every operation
\* goes to base URL, API prefix, resource path, resource extension and query string in
\* that order, so that a legacy client ends every resource path in ".json".
C14_Original ==
    \A o \in Ops :
        LET cfg == Cfg(ops[o].client)
        IN  FirstReq(o).url = BaseUrl(cfg) \o ApiPath(cfg) \o ResourcePath(o)
                              \o Extension(cfg) \o QueryString(o)

\* What is built: the composition holds for the operations on spaces, pages and search,
\* and the operations on attachments and labels leave the extension out.
UrlsAsBuilt ==
    \A o \in Ops :
        LET cfg == Cfg(ops[o].client)
        IN  \/ ops[o].kind \in {"getAttachments", "createAttachment", "updateAttachmentData",
                                "getLabels", "postLabels", "deleteLabel"}
                  /\ FirstReq(o).url = BaseUrl(cfg) \o ApiPath(cfg) \o ResourcePath(o)
                                       \o QueryString(o)
            \/ FirstReq(o).url = BaseUrl(cfg) \o ApiPath(cfg) \o ResourcePath(o)
                                 \o Extension(cfg) \o QueryString(o)

\* The operations that chain requests.
Flows == {"getSpaceHomePage", "postContent"}

\* Every request of operation o but its last has its answer.
Sequential(o) == \A i, j \in ReqsOf(o) : i < j => net[i].answered

\* Operation o has called back without an error.
Succeeded(o) == Len(ops[o].calls) = 1 /\ Absent(ops[o].calls[1].err)

\* C15 as stated: every operation issues one or two requests in all, one if it is
\* single-step, and a later request only once the earlier one has its answer.
C15_Original ==
    \A o \in Ops :
        /\ Cardinality(ReqsOf(o)) \in 1..2
        /\ ops[o].kind \notin Flows => Cardinality(ReqsOf(o)) = 1
        /\ Sequential(o)

\* C15, amended: an operation issues one to three requests, each only once the one
\* before has its answer: one if it is single-step or a postContent with a truthy
\* parentId; the lookup and the home-page GET for getSpaceHomePage; the lookup, the
\* home-page GET and the create POST for a postContent without such a parentId; a
\* chain that fails stops short.
C15_Requests ==
    \A o \in Ops :
        LET n == Cardinality(ReqsOf(o))
        IN  /\ Sequential(o)
            /\ ops[o].kind \notin Flows => n = 1
            /\ ops[o].kind = "getSpaceHomePage" =>
                  /\ n \in 1..2
                  /\ Succeeded(o) => n = 2
            /\ ops[o].kind = "postContent" =>
                  IF Truthy(ops[o].parentId) THEN n = 1
                  ELSE /\ n \in 1..3
                       /\ Succeeded(o) => n = 3

\* A postContent with a null parentId that created its page with the third request.
C15_Witness ==
    \E o \in Ops :
        /\ ops[o].kind = "postContent"
        /\ ops[o].parentId = Null
        /\ Cardinality(ReqsOf(o)) = 3
        /\ net[LastReq(o)].method = "POST"
        /\ Succeeded(o)

\* The config of the most recent successful construction, as it was passed and as it is.
Passed == ctor.heapBefore[ctor.config.n]
Held == heap[ctor.config.n]

\* C16: after a successful construction the apiPath is "/rest/prototype/latest" and the
\* extension ".json" exactly when the version marker passed is the number 4; with any
\* other marker (none, another number, the string "4") they are "/rest/api" and "".
C16_VersionSelector ==
    ctor.instance # 0 =>
        IF Has(Passed, "version") /\ Passed.version = [t |-> "number", n |-> 4, s |-> ""]
        THEN Held.apiPath = Str("/rest/prototype/latest") /\ Held.extension = Str(".json")
        ELSE Held.apiPath = Str("/rest/api") /\ Held.extension = Str("")

\* A construction from a config whose version is the string "4".
C16_Witness ==
    /\ ctor.instance # 0
    /\ Has(Passed, "version")
    /\ Passed.version = Str("4")
    /\ Held.apiPath = Str("/rest/api")
    /\ Held.extension = Str("")

\* What the callback of operation o may receive from the answer to request i.
OwnResults(i) ==
    {Invocation(net[i].err, net[i].res), Invocation(net[i].err, Undef),
     Reduced(net[i].err, net[i].res)}
    \cup {Invocation(e, Undef) : e \in DomainErrors}
    \cup {Invocation(e, net[i].res) : e \in DomainErrors}

\* C17: with operations in flight together and their answers arriving in any order,
\* the callback of an operation receives the outcome of that operation's own last
\* request, and a postContent without parentId sends the create POST with its own page
\* document: its own space and, as ancestors[0].id, the id its own home-page GET
\* returned.
C17_OwnOutcome ==
    \A o \in Ops :
        /\ Len(ops[o].calls) <= 1
        /\ Len(ops[o].calls) = 1 =>
              /\ net[LastReq(o)].answered
              /\ ops[o].calls[1] \in OwnResults(LastReq(o))
        /\ ops[o].kind = "postContent" =>
              \A k \in Creates(o) :
                  /\ net[k].send.space.key = ops[o].space
                  /\ \E j \in HomeGets(o) :
                        /\ j < k
                        /\ ~LacksId(net[j].res)
                        /\ Field(net[k].send.ancestors[1], "id") = net[j].res.body.id

\* Two postContent calls in different spaces whose lookups were both pending, each with
\* its create POST issued under a different home page.
C17_Witness ==
    \E o, p \in Ops :
        /\ ops[o].kind = "postContent" /\ ops[p].kind = "postContent"
        /\ ops[o].space # ops[p].space
        /\ \E i \in Lookups(o), j \in Lookups(p), k \in Creates(o), l \in Creates(p) :
              /\ i < j
              /\ \A h \in HomeGets(o) : j < h
              /\ l < k
              /\ net[k].send.ancestors[1].id = Str("491524")
              /\ net[l].send.ancestors[1].id = Str("98310")
              /\ net[k].send.space.key = ops[o].space
              /\ net[l].send.space.key = ops[p].space

\* The home-page GETs of operation o go to the base URL followed by the value its lookup
\* returned as results[0]._expandable.homepage, with no API prefix and no extension.
HomeGetTargets(o) ==
    \A k \in HomeGets(o) :
        \E j \in Lookups(o) :
            /\ j < k
            /\ Absent(net[j].err)
            /\ net[k].method = "GET"
            /\ net[k].url = BaseUrl(Cfg(ops[o].client))
                            \o ToStr(Field(net[j].res.body.results[1]._expandable,
                                           "homepage"))

\* The create POSTs of operation o name the page its home-page GET returned as parent.
ParentIsHomePage(o) ==
    \A k \in Creates(o) :
        \E j \in HomeGets(o) :
            /\ j < k
            /\ ~LacksId(net[j].res)
            /\ Field(net[k].send.ancestors[1], "id") = net[j].res.body.id

\* The create POSTs of operation o name the parentId of the call as parent.
ParentIsArgument(o) ==
    /\ Creates(o) # {}
    /\ \A k \in Creates(o) : Field(net[k].send.ancestors[1], "id") = ops[o].parentId

\* C18 as stated: the second GET of the home-page flow goes to the base URL followed by
\* results[0]._expandable.homepage of the lookup, under either API version; the create
\* body of a postContent without parentId has the id of the home-page result as
\* ancestors[0].id, and that of a postContent with a parentId has that parentId.
C18_Original ==
    \A o \in Ops :
        /\ HomeGetTargets(o)
        /\ ops[o].kind = "postContent" =>
              IF ops[o].parentId = Null THEN ParentIsHomePage(o) ELSE ParentIsArgument(o)

\* What is built: the same, a parentId counting as supplied only when it is truthy.
ParentsAsBuilt ==
    \A o \in Ops :
        /\ HomeGetTargets(o)
        /\ ops[o].kind = "postContent" =>
              IF Truthy(ops[o].parentId) THEN ParentIsArgument(o) ELSE ParentIsHomePage(o)

\* C19: the client keeps no version of a page: the version number a putContent sends is
\* the version argument of that call, whatever reads, creations and updates came
\* before; and no operation writes to the client or its config, which stay as the
\* constructor left them.
C19_NoVersionState ==
    /\ \A o \in Ops :
          ops[o].kind = "putContent" => OnlyReq(o).send.version.number = ops[o].version
    /\ clients = <<[config |-> Ref(1)]>>
    /\ heap = <<Derive(ctor.heapBefore[1])>>

\* An update sent as version 2 after an update sent as version 3 was answered.
C19_Witness ==
    \E o, p \in Ops :
        /\ o < p
        /\ ops[o].kind = "putContent" /\ ops[p].kind = "putContent"
        /\ ops[o].version = Num(3) /\ ops[p].version = Num(2)
        /\ \E i \in ReqsOf(o), j \in ReqsOf(p) :
              /\ net[i].answered
              /\ Absent(net[i].err)
              /\ net[i].send.version.number = Num(3)
              /\ net[j].send.version.number = Num(2)

\* C20: a construction that fails changes nothing: the caller's objects are as they
\* were, no client exists that did not, no request is issued. A construction that
\* succeeds issues no request either, keeps the very object the caller passed as the
\* client's config and writes apiPath and extension into that object, so that all
\* clients built from one object read one descriptor.
C20_CallerConfig ==
    [][ctor' # ctor =>
          /\ net' = net
          /\ ops' = ops
          /\ IF ctor'.thrown # ""
             THEN heap' = heap /\ clients' = clients
             ELSE /\ clients' = Append(clients, [config |-> ctor'.config])
                  /\ Len(heap') = Len(heap)
                  /\ heap'[ctor'.config.n] = Derive(heap[ctor'.config.n])
                  /\ Has(heap'[ctor'.config.n], "apiPath")
                  /\ Has(heap'[ctor'.config.n], "extension")
                  /\ \A i \in 1..Len(heap) : i # ctor'.config.n => heap'[i] = heap[i]
                  /\ \A c \in 1..Len(clients') :
                        clients'[c].config = ctor'.config =>
                            heap'[clients'[c].config.n] = heap'[ctor'.config.n]]_vars

\* Two clients built from one object, the second after the object's version was set
\* to 4: the descriptor the first was given has been overwritten for both.
C20_Witness ==
    /\ Len(clients) = 2
    /\ clients[1].config = clients[2].config
    /\ ctor.instance = 2
    /\ Passed.apiPath = Str(ModernApiPath)
    /\ Cfg(1).apiPath = Str(LegacyApiPath)
    /\ Cfg(2).apiPath = Str(LegacyApiPath)

\* A construction that failed on an object without baseUrl, which got no descriptor.
C20_FailedUntouched ==
    /\ ctor.thrown = MsgNoBaseUrl
    /\ ~Has(heap[ctor.config.n], "apiPath")
    /\ ~Has(heap[ctor.config.n], "extension")
    /\ clients = <<>>

====
